---- MODULE Spec2Model ----
(***************************************************************************)
(* Model of the g2p procedural macro crate (src/src/lib.rs): definition of *)
(* a field GF(2^p) (Settings::from_input, find_modulus_poly,               *)
(* find_generator), construction of the exponent / logarithm tables        *)
(* (generate_log_tables) and the table based arithmetic of the generated   *)
(* type (From, Add, Sub, Mul, Div).                                        *)
(*                                                                         *)
(* Polynomials over GF(2) (G2Poly, crate g2poly) are natural numbers whose *)
(* bit i is the coefficient of x^i.  Option<T> is a set with at most one   *)
(* element: {} is None and {v} is Some(v).  Vectors and arrays are         *)
(* sequences, so the Rust index i is the TLA+ index i + 1.                 *)
(***************************************************************************)
EXTENDS Integers, Sequences, FiniteSets

VARIABLES pc, input, settings, EXP_TABLE, LOG_TABLE, tables, last

vars == <<pc, input, settings, EXP_TABLE, LOG_TABLE, tables, last>>

(***************************************************************************)
(* Bounds of the model.                                                    *)
(***************************************************************************)
\* largest degree p given to the macro; explicit moduli have degree <= MaxP
MaxP == 4
\* explicit generators are the polynomials 0 .. MaxGen
MaxGen == 5

\* the modulus of test_generate_log_should_fail, 0b100011011
ShouldFailModulus == 283

Pow2(n) == 2 ^ n

\* the value of Some(v)
Only(s) == CHOOSE x \in s : TRUE

(***************************************************************************)
(* G2Poly: polynomials over GF(2).                                         *)
(***************************************************************************)
\* the exclusive or of two 4-bit digits
XorDigit(a, b) ==
    ((a + b) % 2)
    + 2 * (((a \div 2) + (b \div 2)) % 2)
    + 4 * (((a \div 4) + (b \div 4)) % 2)
    + 8 * (((a \div 8) + (b \div 8)) % 2)

RECURSIVE Xor(_, _)
\* bitwise exclusive or: G2Poly addition and subtraction, and ^ on integers
Xor(a, b) ==
    IF a = 0 THEN b
    ELSE IF b = 0 THEN a
    ELSE XorDigit(a % 16, b % 16) + 16 * Xor(a \div 16, b \div 16)

\* the number of bits of a: 0 for 0, else the degree of a plus one
BitLength(a) ==
    IF a = 0 THEN 0
    ELSE CHOOSE n \in 1..a : Pow2(n - 1) <= a /\ a < Pow2(n)

\* G2Poly::degree: the index of the highest set bit, None for the zero polynomial
degree(a) == IF a = 0 THEN {} ELSE {BitLength(a) - 1}

RECURSIVE ClMulAcc(_, _, _)
\* the loop of the carry-less multiplication: acc + a * b (acc is never
\* negative; the test has the accumulator computed at every step)
ClMulAcc(a, b, acc) ==
    IF b = 0 \/ a = 0 \/ acc < 0 THEN acc
    ELSE ClMulAcc(2 * a, b \div 2, IF b % 2 = 1 THEN Xor(acc, a) ELSE acc)

\* G2Poly multiplication: carry-less, shift and xor
ClMul(a, b) == ClMulAcc(a, b, 0)

RECURSIVE Rem(_, _)
\* G2Poly remainder of the polynomial long division, m # 0
Rem(a, m) ==
    IF BitLength(a) < BitLength(m) THEN a
    ELSE Rem(Xor(a, m * Pow2(BitLength(a) - BitLength(m))), m)

\* G2Poly::is_irreducible: trial division by every polynomial of degree
\* 1 .. d/2; the zero polynomial and the polynomials of degree 0 are not
\* irreducible
is_irreducible(m) ==
    /\ BitLength(m) >= 2
    /\ \A q \in 2..(Pow2(((BitLength(m) - 1) \div 2) + 1) - 1) : Rem(m, q) # 0

RECURSIVE PowMod(_, _, _)
\* g^k modulo m, by repeated squaring
PowMod(g, k, m) ==
    IF k = 0 THEN Rem(1, m)
    ELSE LET h == PowMod(g, k \div 2, m)
         IN  IF h = 0 THEN 0
             ELSE IF k % 2 = 1
             THEN Rem(ClMul(Rem(ClMul(h, h), m), g), m)
             ELSE Rem(ClMul(h, h), m)

\* G2Poly::is_generator: g to the power 2^d - 1 is 1 modulo the irreducible
\* polynomial m of degree d, and g to no smaller divisor of 2^d - 1 is
is_generator(g, m) ==
    LET n == Pow2(BitLength(m) - 1) - 1
    IN  /\ PowMod(g, n, m) = 1
        /\ \A k \in 1..(n - 1) : n % k = 0 => PowMod(g, k, m) # 1

(***************************************************************************)
(* Field definition.                                                       *)
(***************************************************************************)
RECURSIVE ModulusScan(_, _)
\* the loop of find_modulus_poly: the first irreducible m in m .. end
ModulusScan(m, end) ==
    IF m > end THEN {}
    ELSE IF is_irreducible(m) THEN {m}
    ELSE ModulusScan(m + 1, end)

\* find_modulus_poly with the range start..end in place of start..=end
find_modulus_poly_exclusive(p) == ModulusScan(Pow2(p) + 1, Pow2(p + 1) - 2)

\* find_modulus_poly: Some(modulus), or None where the code reaches
\* unreachable!()
find_modulus_poly(p) == ModulusScan(Pow2(p) + 1, Pow2(p + 1) - 1)

RECURSIVE GeneratorScan(_, _, _)
GeneratorScan(g, end, m) ==
    IF g >= end THEN {}
    ELSE IF is_generator(g, m) THEN {g}
    ELSE GeneratorScan(g + 1, end, m)

\* find_generator: Some(generator), or None where the code reaches
\* unreachable!()
find_generator(m) == GeneratorScan(1, 2 * Pow2(Only(degree(m))), m)

NoSettings == [kind |-> "None", p_val |-> 0, modulus |-> 0, generator |-> 0]

\* Settings::from_input on ParsedInput { p, modulus, generator }: Ok(Settings),
\* Err(..) or a panic
from_input(p, modulus, generator) ==
    LET m == IF modulus = {} THEN find_modulus_poly(p) ELSE modulus
    IN  IF m = {}
        THEN [NoSettings EXCEPT !.kind = "PanicUnreachable", !.p_val = p]
        ELSE IF ~is_irreducible(Only(m))
        THEN [NoSettings EXCEPT !.kind = "ErrNotIrreducible", !.p_val = p,
                                !.modulus = Only(m)]
        ELSE LET g == IF generator = {} THEN find_generator(Only(m))
                      ELSE generator
             IN  IF g = {}
                 THEN [NoSettings EXCEPT !.kind = "PanicUnreachable",
                                         !.p_val = p, !.modulus = Only(m)]
                 ELSE IF ~is_generator(Only(g), Only(m))
                 THEN [NoSettings EXCEPT !.kind = "ErrNotGenerator",
                                         !.p_val = p, !.modulus = Only(m),
                                         !.generator = Only(g)]
                 ELSE [kind |-> "Ok", p_val |-> p, modulus |-> Only(m),
                       generator |-> Only(g)]

(***************************************************************************)
(* Table construction.                                                     *)
(***************************************************************************)
RECURSIVE Zeros(_)
\* vec![0; n]
Zeros(n) ==
    IF n = 0 THEN <<>>
    ELSE LET h == Zeros(n \div 2)
         IN  IF n % 2 = 1 THEN Append(h \o h, 0) ELSE h \o h

\* the frame of generate_log_tables: its arguments, the assertion that
\* failed if one did, the two tables and the loop's i and cur_pow
NoTables ==
    [panic |-> "", gen |-> 0, modulus |-> 0, p_minus_1 |-> 0,
     exp |-> <<>>, log |-> <<>>, i |-> 0, cur_pow |-> 0]

\* generate_log_tables_enter that asserts a modulus of positive degree in
\* place of an irreducible one
generate_log_tables_enter_degree_assert(gen, modulus) ==
    IF BitLength(modulus) < 2
    THEN [NoTables EXCEPT !.panic = "assert is_irreducible",
                          !.gen = gen, !.modulus = modulus]
    ELSE IF ~is_generator(gen, modulus)
    THEN [NoTables EXCEPT !.panic = "assert is_generator",
                          !.gen = gen, !.modulus = modulus]
    ELSE LET deg == Only(degree(modulus))
             p_minus_1 == Pow2(deg) - 1
         IN  [panic |-> "", gen |-> gen, modulus |-> modulus,
              p_minus_1 |-> p_minus_1, exp |-> <<>>,
              log |-> Zeros(p_minus_1 + 1), i |-> 0, cur_pow |-> 1]

\* generate_log_tables up to its loop: the two assertions and the initial
\* values of the locals
generate_log_tables_enter(gen, modulus) ==
    IF ~is_irreducible(modulus)
    THEN [NoTables EXCEPT !.panic = "assert is_irreducible",
                          !.gen = gen, !.modulus = modulus]
    ELSE IF ~is_generator(gen, modulus)
    THEN [NoTables EXCEPT !.panic = "assert is_generator",
                          !.gen = gen, !.modulus = modulus]
    ELSE LET deg == Only(degree(modulus))
             p_minus_1 == Pow2(deg) - 1
         IN  [panic |-> "", gen |-> gen, modulus |-> modulus,
              p_minus_1 |-> p_minus_1, exp |-> <<>>,
              log |-> Zeros(p_minus_1 + 1), i |-> 0, cur_pow |-> 1]

\* the loop body with the push moved behind the multiplication
LogStep_push_after(t) ==
    [t EXCEPT !.exp = Append(t.exp, Rem(ClMul(t.cur_pow, t.gen), t.modulus)),
              !.log = [t.log EXCEPT ![t.cur_pow + 1] = t.i],
              !.cur_pow = Rem(ClMul(t.cur_pow, t.gen), t.modulus),
              !.i = t.i + 1]

\* one iteration of the loop of generate_log_tables
LogStep(t) ==
    [t EXCEPT !.exp = Append(t.exp, t.cur_pow),
              !.log = [t.log EXCEPT ![t.cur_pow + 1] = t.i],
              !.cur_pow = Rem(ClMul(t.cur_pow, t.gen), t.modulus),
              !.i = t.i + 1]

\* the element type of the generated newtype: u8 for p in 1..=8, else u16
TyBits(p) == IF p <= 8 THEN 8 ELSE 16
\* the arithmetic type of mul and div: u16 for p in 1..=8, else u32
AriBits(p) == IF p <= 8 THEN 16 ELSE 32

\* `v as ty`
Cast(v, bits) == v % Pow2(bits)

(***************************************************************************)
(* Arithmetic of the generated type, on the tables of the state.           *)
(***************************************************************************)
field_size == Pow2(settings.p_val)
MASK == Cast(Pow2(settings.p_val) - 1, TyBits(settings.p_val))

RECURSIVE BitAnd(_, _)
BitAnd(a, b) ==
    IF a = 0 \/ b = 0 THEN 0
    ELSE (a % 2) * (b % 2) + 2 * BitAnd(a \div 2, b \div 2)

\* From<ty>::from: the raw integer masked to p bits
from(v) == BitAnd(v, MASK)

\* table[i], with the bounds check of the array access
InBounds(table, i) == i \in 0..(Len(table) - 1)
At(table, i) == IF InBounds(table, i) THEN table[i + 1] ELSE 0

NoOp == [op |-> "none", lhs |-> 0, rhs |-> 0, panic |-> "", value |-> 0,
         logs |-> <<>>, log_reads |-> {}, exp_reads |-> {}, c_raw |-> 0]

\* #field_size as #ari_ty - 1
Limit == Cast(field_size, AriBits(settings.p_val)) - 1

\* `if c > limit { c -= limit }` on the arithmetic type; c_raw is the
\* mathematical value of the sum that c is set to
Reduce(c_raw) ==
    LET c == Cast(c_raw, AriBits(settings.p_val))
    IN  IF c > Limit THEN c - Limit ELSE c

\* the table accesses of mul and div: LOG_TABLE[self], LOG_TABLE[rhs], which
\* gave a and b, and EXP_TABLE[c], the result
Access(name, self, rhs, a, b, c_raw, c) ==
    [op |-> name, lhs |-> self, rhs |-> rhs,
     panic |-> IF /\ InBounds(LOG_TABLE, self)
                  /\ InBounds(LOG_TABLE, rhs)
                  /\ InBounds(EXP_TABLE, c)
               THEN "" ELSE "index out of bounds",
     value |-> At(EXP_TABLE, c), logs |-> <<a, b>>,
     log_reads |-> {self, rhs}, exp_reads |-> {c}, c_raw |-> c_raw]

\* Add::add
add(self, rhs) ==
    [NoOp EXCEPT !.op = "add", !.lhs = self, !.rhs = rhs,
                 !.value = Xor(self, rhs)]

\* Sub::sub
sub(self, rhs) ==
    [NoOp EXCEPT !.op = "sub", !.lhs = self, !.rhs = rhs,
                 !.value = Xor(self, rhs)]

\* mul without the test for a zero operand
mul_no_zero_test(self, rhs) ==
    LET a == At(LOG_TABLE, self)
        b == At(LOG_TABLE, rhs)
    IN  Access("mul", self, rhs, a, b, a + b, Reduce(a + b))

\* mul without the subtraction of field_size - 1
mul_no_reduce(self, rhs) ==
    IF self = 0 \/ rhs = 0
    THEN [NoOp EXCEPT !.op = "mul", !.lhs = self, !.rhs = rhs, !.value = 0]
    ELSE LET a == At(LOG_TABLE, self)
             b == At(LOG_TABLE, rhs)
         IN  Access("mul", self, rhs, a, b, a + b,
                    Cast(a + b, AriBits(settings.p_val)))

\* Mul::mul
mul(self, rhs) ==
    IF self = 0 \/ rhs = 0
    THEN [NoOp EXCEPT !.op = "mul", !.lhs = self, !.rhs = rhs, !.value = 0]
    ELSE LET a == At(LOG_TABLE, self)
             b == At(LOG_TABLE, rhs)
         IN  Access("mul", self, rhs, a, b, a + b, Reduce(a + b))

\* div that tests the dividend, not the divisor, for zero
div_tests_dividend(self, rhs) ==
    IF self = 0
    THEN [NoOp EXCEPT !.op = "div", !.lhs = self, !.rhs = rhs,
                      !.panic = "Division by 0"]
    ELSE LET a == At(LOG_TABLE, self)
             inv_rhs == At(LOG_TABLE, rhs)
         IN  Access("div", self, rhs, a, inv_rhs, Limit + a - inv_rhs,
                    Reduce(Limit + a - inv_rhs))

\* div without the offset field_size - 1 that keeps the difference of the
\* logarithms from going below zero
div_no_offset(self, rhs) ==
    IF rhs = 0
    THEN [NoOp EXCEPT !.op = "div", !.lhs = self, !.rhs = rhs,
                      !.panic = "Division by 0"]
    ELSE LET a == At(LOG_TABLE, self)
             inv_rhs == At(LOG_TABLE, rhs)
         IN  Access("div", self, rhs, a, inv_rhs, a - inv_rhs,
                    Reduce(a - inv_rhs))

\* Div::div
div(self, rhs) ==
    IF rhs = 0
    THEN [NoOp EXCEPT !.op = "div", !.lhs = self, !.rhs = rhs,
                      !.panic = "Division by 0"]
    ELSE LET a == At(LOG_TABLE, self)
             inv_rhs == At(LOG_TABLE, rhs)
         IN  Access("div", self, rhs, a, inv_rhs, Limit + a - inv_rhs,
                    Reduce(Limit + a - inv_rhs))

(***************************************************************************)
(* The state machine.                                                      *)
(***************************************************************************)
Option(S) == {{}} \cup {{v} : v \in S}

\* the arguments of generate_log_tables
ModulusArgs == 0..(Pow2(MaxP + 1) - 1) \cup {ShouldFailModulus}
GeneratorArgs == 0..MaxGen

\* the fields of ParsedInput
Degrees == 0..MaxP
ModulusInputs == Option(ModulusArgs)
GeneratorInputs == Option(GeneratorArgs)

NoInput == [p |-> 0, modulus |-> {}, generator |-> {}]

Init ==
    /\ pc = "init"
    /\ input = NoInput
    /\ settings = NoSettings
    /\ EXP_TABLE = <<>>
    /\ LOG_TABLE = <<>>
    /\ tables = NoTables
    /\ last = NoOp

\* Settings::from_input, called by g2p and by test_settings_parser
FromInput ==
    /\ pc = "init"
    /\ \E p \in Degrees, modulus \in ModulusInputs, generator \in GeneratorInputs :
           /\ input' = [p |-> p, modulus |-> modulus, generator |-> generator]
           /\ settings' = from_input(p, modulus, generator)
    /\ pc' = IF settings'.kind = "Ok" THEN "settings"
             ELSE IF settings'.kind = "PanicUnreachable" THEN "panic"
             ELSE "error"
    /\ UNCHANGED <<EXP_TABLE, LOG_TABLE, tables, last>>

\* g2p after from_input returned Err: unwrap() panics
ExpandErr ==
    /\ pc = "error"
    /\ pc' = "panic"
    /\ UNCHANGED <<input, settings, EXP_TABLE, LOG_TABLE, tables, last>>

\* g2p after from_input returned Ok, up to the loop of generate_log_tables
Expand ==
    /\ pc = "settings"
    /\ IF settings.p_val = 0
       THEN /\ pc' = "panic"
            /\ UNCHANGED tables
       ELSE /\ tables' = generate_log_tables_enter(settings.generator,
                                                   settings.modulus)
            /\ pc' = IF tables'.panic = "" THEN "loop" ELSE "panic"
    /\ UNCHANGED <<input, settings, EXP_TABLE, LOG_TABLE, last>>

\* generate_log_tables called on its own, as the tests do, up to its loop
GenerateLogTables ==
    /\ pc = "init"
    /\ \E gen \in GeneratorArgs, modulus \in ModulusArgs :
           tables' = generate_log_tables_enter(gen, modulus)
    /\ pc' = IF tables'.panic = "" THEN "loop" ELSE "panic"
    /\ UNCHANGED <<input, settings, EXP_TABLE, LOG_TABLE, last>>

\* one iteration of for i in 0..=p_minus_1
LogLoop ==
    /\ pc = "loop"
    /\ tables.i <= tables.p_minus_1
    /\ tables' = LogStep(tables)
    /\ UNCHANGED <<pc, input, settings, EXP_TABLE, LOG_TABLE, last>>

\* generate_log_tables returns to the test that called it
ReturnTables ==
    /\ pc = "loop"
    /\ tables.i > tables.p_minus_1
    /\ settings.kind = "None"
    /\ pc' = "tables"
    /\ UNCHANGED <<input, settings, EXP_TABLE, LOG_TABLE, tables, last>>

\* generate_log_tables returns to g2p: the tables are written into the
\* constants of the new type, arrays of field_size elements
Generate ==
    /\ pc = "loop"
    /\ tables.i > tables.p_minus_1
    /\ settings.kind = "Ok"
    /\ EXP_TABLE' = [k \in 1..Len(tables.exp) |->
                         Cast(tables.exp[k], TyBits(settings.p_val))]
    /\ LOG_TABLE' = [k \in 1..Len(tables.log) |->
                         Cast(tables.log[k], TyBits(settings.p_val))]
    /\ pc' = IF Len(EXP_TABLE') = field_size /\ Len(LOG_TABLE') = field_size
             THEN "ready" ELSE "compile_error"
    /\ UNCHANGED <<input, settings, tables, last>>

\* raw integers converted into the field
RawValues == 0..field_size

\* The operators of the generated type, each applied to two integers
\* x and y converted into the field; the run ends with the result in last.

Add ==
    /\ pc = "ready"
    /\ \E x \in RawValues, y \in RawValues : last' = add(from(x), from(y))
    /\ pc' = "done"
    /\ UNCHANGED <<input, settings, EXP_TABLE, LOG_TABLE, tables>>

Sub ==
    /\ pc = "ready"
    /\ \E x \in RawValues, y \in RawValues : last' = sub(from(x), from(y))
    /\ pc' = "done"
    /\ UNCHANGED <<input, settings, EXP_TABLE, LOG_TABLE, tables>>

Mul ==
    /\ pc = "ready"
    /\ \E x \in RawValues, y \in RawValues : last' = mul(from(x), from(y))
    /\ pc' = "done"
    /\ UNCHANGED <<input, settings, EXP_TABLE, LOG_TABLE, tables>>

Div ==
    /\ pc = "ready"
    /\ \E x \in RawValues, y \in RawValues : last' = div(from(x), from(y))
    /\ pc' = "done"
    /\ UNCHANGED <<input, settings, EXP_TABLE, LOG_TABLE, tables>>

Next ==
    \/ FromInput
    \/ ExpandErr
    \/ Expand
    \/ GenerateLogTables
    \/ LogLoop
    \/ ReturnTables
    \/ Generate
    \/ Add
    \/ Sub
    \/ Mul
    \/ Div

Spec == Init /\ [][Next]_vars

TypeOK ==
    /\ pc \in {"init", "settings", "error", "panic", "tables", "ready",
               "compile_error", "done", "loop"}
    /\ last.panic \in {"", "Division by 0", "index out of bounds"}

(***************************************************************************)
(* Properties.                                                             *)
(***************************************************************************)
\* the state holds the result of an operator of the generated type
Done == pc = "done"

\* from_input has returned and nothing else has run since (but for the
\* unwrap of its result)
Returned == pc \in {"settings", "error", "panic"} /\ settings.kind # "None"

\* generate_log_tables was called on its own and has returned or panicked
Called == pc \in {"tables", "panic"} /\ settings.kind = "None"

\* generate_log_tables has returned its tables
TablesBuilt == pc \in {"tables", "ready", "compile_error", "done"}

\* m is the product of two polynomials of positive degree
Reducible(m) ==
    \E a \in 2..(Pow2((BitLength(m) \div 2) + 1) - 1), b \in 2..m :
        ClMul(a, b) = m

\* the irreducible polynomials among lo .. hi
IrreducibleIn(lo, hi) == {m \in lo..hi : is_irreducible(m)}

Least(S) == CHOOSE x \in S : \A y \in S : x <= y

\* C1: for every field and all elements a and b with b # 0 (a = 0
\* included), dividing the product mul(a, b) by b gives a back.
C1_DivUndoesMul ==
    (Done /\ last.op = "mul" /\ last.rhs # 0) =>
        /\ div(last.value, last.rhs).panic = ""
        /\ div(last.value, last.rhs).value = last.lhs

\* C2: the table based product mul(a, b) is the carry-less product of a and
\* b reduced modulo the modulus of the field; in GF16 with modulus 0b10011,
\* 5 + 7 = 5 - 7 = 2, 5 * 4 = 7, 5 / 7 = 1 / 4 and 4 / 4 = 1.
C2_MulIsReferenceProduct ==
    /\ (Done /\ last.op = "mul") =>
           /\ last.panic = ""
           /\ last.value = Rem(ClMul(last.lhs, last.rhs), settings.modulus)
    /\ (pc = "ready" /\ settings.p_val = 4 /\ settings.modulus = 19) =>
           /\ add(5, 7).value = 2
           /\ sub(5, 7).value = 2
           /\ mul(5, 4).value = 7
           /\ div(5, 7).value = div(1, 4).value
           /\ div(4, 4).value = 1

C2_Witness ==
    /\ Done /\ settings.p_val = 4 /\ settings.modulus = 19
    /\ last.op = "mul" /\ last.lhs = 5 /\ last.rhs = 4 /\ last.value = 7

\* C3: div(0, b) for a nonzero b returns the zero element without touching
\* the tables: slot 0 of LOG_TABLE is not read.
C3_ZeroDividend ==
    (Done /\ last.op = "div" /\ last.lhs = 0 /\ last.rhs # 0) =>
        /\ last.value = 0
        /\ 0 \notin last.log_reads

\* C4: div(a, 0) fails with the division by zero for every dividend a, zero
\* included, and returns no element; no other operation fails: add, sub, mul
\* and div by a nonzero divisor return an element of the field.
C4_OnlyDivByZeroFails ==
    Done =>
        /\ (last.op = "div" /\ last.rhs = 0) => last.panic = "Division by 0"
        /\ ~(last.op = "div" /\ last.rhs = 0) =>
               (last.panic = "" /\ last.value \in 0..(field_size - 1))

C4_Witness ==
    /\ Done /\ last.op = "div" /\ last.lhs = 0 /\ last.rhs = 0
    /\ last.panic = "Division by 0"

\* C5: the tables generate_log_tables returns for an irreducible modulus of
\* degree d and a generator of its multiplicative group have both 2^d
\* entries, and exp_table[log_table[e]] = e for every nonzero element e.
C5_ExpInvertsLog ==
    TablesBuilt =>
        LET n == Pow2(BitLength(tables.modulus) - 1)
        IN  /\ tables.panic = ""
            /\ Len(tables.exp) = n
            /\ Len(tables.log) = n
            /\ \A e \in 1..(n - 1) :
                   /\ tables.log[e + 1] \in 0..(n - 1)
                   /\ tables.exp[tables.log[e + 1] + 1] = e
            /\ pc \in {"ready", "done"} =>
                   /\ n = field_size
                   /\ \A e \in 1..(n - 1) :
                          EXP_TABLE[LOG_TABLE[e + 1] + 1] = e

C5_Witness ==
    /\ pc = "ready" /\ input.modulus = {} /\ input.generator = {}
    /\ settings.p_val = MaxP /\ Len(tables.exp) = Pow2(MaxP)

\* C6 as stated: a reducible explicit modulus, of which 0b100011011 with the
\* generator 0b10 is one, is rejected: from_input returns the error of the
\* irreducibility test and generate_log_tables fails its irreducibility
\* assertion.
C6_Original ==
    /\ (Returned /\ input.modulus # {}
           /\ (Reducible(Only(input.modulus))
                  \/ input.modulus = {ShouldFailModulus})) =>
           settings.kind = "ErrNotIrreducible"
    /\ (Called
           /\ (Reducible(tables.modulus)
                  \/ (tables.modulus = ShouldFailModulus /\ tables.gen = 2))) =>
           tables.panic = "assert is_irreducible"

\* C6: a reducible explicit modulus is rejected and yields no tables:
\* from_input returns the error of the irreducibility test and
\* generate_log_tables fails its irreducibility assertion.  0b100011011 is
\* irreducible: from_input does not reject it as a modulus, and
\* generate_log_tables with the generator 0b10 fails its generator assertion.
C6_ReducibleRejected ==
    /\ (Returned /\ input.modulus # {}
           /\ Reducible(Only(input.modulus))) =>
           /\ settings.kind = "ErrNotIrreducible"
           /\ tables.exp = <<>> /\ EXP_TABLE = <<>> /\ LOG_TABLE = <<>>
    /\ (Called
           /\ Reducible(tables.modulus)) =>
           /\ tables.panic = "assert is_irreducible"
           /\ tables.exp = <<>> /\ tables.log = <<>>
    /\ (Returned /\ input.modulus = {ShouldFailModulus}) =>
           settings.kind \in {"Ok", "ErrNotGenerator"}
    /\ (Called
           /\ tables.modulus = ShouldFailModulus /\ tables.gen = 2) =>
           tables.panic = "assert is_generator"

C6_Witness ==
    /\ pc = "panic" /\ settings.kind = "None"
    /\ tables.modulus = 27 /\ tables.gen = 2
    /\ tables.panic = "assert is_irreducible"

\* C7: when from_input returns Ok for a degree p >= 1, the modulus has
\* degree p, and the tables built from it have the 2^p entries of the field.
C7_ModulusDegreeIsP ==
    (settings.kind = "Ok" /\ settings.p_val >= 1) =>
        /\ BitLength(settings.modulus) - 1 = settings.p_val
        /\ TablesBuilt => Len(tables.exp) = field_size

\* C8 as stated: for every p >= 1, p = 1 included, find_modulus_poly(p) is
\* the least irreducible polynomial of degree p.
C8_Original ==
    (Returned /\ input.p >= 1 /\ input.modulus = {}) =>
        /\ settings.kind # "PanicUnreachable"
        /\ settings.modulus =
               Least(IrreducibleIn(Pow2(input.p), Pow2(input.p + 1) - 1))

\* C8: for every p >= 1 the scan of find_modulus_poly(p) finds a match, the
\* least irreducible polynomial among 2^p + 1 .. 2^(p+1) - 1; for p >= 2 it
\* is the least irreducible polynomial of degree p, for p = 1 it is 0b11
\* although 0b10 is irreducible; p = 3 without explicit parameters gives the
\* modulus 0b1011 and the generator 0b10.
C8_LeastInScanRange ==
    (Returned /\ input.p >= 1 /\ input.modulus = {}) =>
        /\ settings.kind # "PanicUnreachable"
        /\ settings.modulus =
               Least(IrreducibleIn(Pow2(input.p) + 1, Pow2(input.p + 1) - 1))
        /\ input.p >= 2 =>
               settings.modulus =
                   Least(IrreducibleIn(Pow2(input.p), Pow2(input.p + 1) - 1))
        /\ input.p = 1 => (settings.modulus = 3 /\ is_irreducible(2))
        /\ (input.p = 3 /\ input.generator = {}) =>
               settings = [kind |-> "Ok", p_val |-> 3, modulus |-> 11,
                           generator |-> 2]

C8_Witness ==
    /\ pc = "settings" /\ input = [p |-> 3, modulus |-> {}, generator |-> {}]
    /\ settings.modulus = 11 /\ settings.generator = 2

\* C9 as stated: in mul with two nonzero operands the two logarithms are at
\* most N - 2 and the index into EXP_TABLE lies in 0 .. N - 2.
C9_Original ==
    (Done /\ last.op = "mul" /\ last.lhs # 0 /\ last.rhs # 0) =>
        /\ last.logs[1] <= field_size - 2
        /\ last.logs[2] <= field_size - 2
        /\ last.exp_reads \subseteq 0..(field_size - 2)

\* C9: in mul with two nonzero operands the two logarithms read from
\* LOG_TABLE are at most N - 1 (the logarithm of 1 is N - 1), and after the
\* single conditional subtraction of N - 1 the index into EXP_TABLE lies in
\* 0 .. N - 1.
C9_LogsAndIndex ==
    (Done /\ last.op = "mul" /\ last.lhs # 0 /\ last.rhs # 0) =>
        /\ last.logs[1] \in 0..(field_size - 1)
        /\ last.logs[2] \in 0..(field_size - 1)
        /\ last.lhs = 1 => last.logs[1] = field_size - 1
        /\ last.exp_reads # {}
        /\ last.exp_reads \subseteq 0..(field_size - 1)

C9_Witness ==
    /\ Done /\ last.op = "mul" /\ last.lhs = 1 /\ last.rhs = 1
    /\ settings.p_val = 3
    /\ last.logs = <<7, 7>> /\ last.exp_reads = {7}

\* C10: every table access of mul and div is in bounds, for all operands of
\* the field (nonzero divisor, zero dividend included): LOG_TABLE and
\* EXP_TABLE have N entries and are read at indexes in 0 .. N - 1, and the
\* unsigned intermediate N - 1 + a - b of div does not go below zero.
C10_AccessesInBounds ==
    (Done /\ last.op \in {"mul", "div"} /\ last.panic # "Division by 0") =>
        /\ Len(LOG_TABLE) = field_size
        /\ Len(EXP_TABLE) = field_size
        /\ last.log_reads \subseteq 0..(field_size - 1)
        /\ last.exp_reads \subseteq 0..(field_size - 1)
        /\ last.c_raw \in 0..(Pow2(AriBits(settings.p_val)) - 1)
        /\ last.panic = ""

C10_Witness ==
    /\ Done /\ last.op = "div" /\ last.lhs = 0 /\ last.rhs # 0
    /\ last.log_reads = {0, last.rhs} /\ last.c_raw >= 0 /\ last.panic = ""

====
